---- MODULE Spec2Model ----
(***************************************************************************)
(* A model of billcalc.py: the pro-rata settlement of one bill over a      *)
(* roster of tenants (Tenant.owes, who_owes_what) and the command-line     *)
(* runs of main() over the persisted JSON file and its backup.             *)
(*                                                                         *)
(* Dates are day ordinals (datetime.date compared and subtracted as        *)
(* integers, (a - b).days = a - b).  Amounts are integer cents: the floats *)
(* of the program are decimal amounts with two places, and round(x, 2)     *)
(* yields the cent nearest to x.  Where x lies exactly half-way between    *)
(* two cents the float that the program rounds is the binary neighbour of  *)
(* x, above or below it, so the cent obtained is either one: the model     *)
(* takes the choice as an input (tie) of the call.                         *)
(***************************************************************************)
EXTENDS Integers, Sequences, FiniteSets, TLC

\* ------------------------------------------------------------------ bounds
MaxSettleDay == 2       \* settlement inputs: dates are 0 .. MaxSettleDay
MaxRoster == 2          \* settlement inputs: tenants in the roster
MaxCount == 2           \* tenant_count of a property is 1 .. MaxCount
MaxDay == 1             \* runs: dates of bills and today are 0 .. MaxDay
MaxBills == 2           \* runs: bills kept in the file
MaxTenants == 2         \* runs: tenants of the initial file
MaxFlags == 2           \* runs: options given on one command line

\* --------------------------------------------------------------- variables
VARIABLES
    file,        \* content of billcalc.json: [property, tenants, bills]
    backup,      \* <<content>> of billcalc.json_bak, <<>> when absent
    today,       \* datetime.date.today()
    run,         \* the last run of main(): its arguments and what it printed
    first_count, \* history: unique_id -> tenant_count when the bill was added
    s_bill,      \* settlement: the Bill object given to who_owes_what
    s_tenants,   \* settlement: the tenant list given to who_owes_what
    s_today,     \* settlement: datetime.date.today() during the call
    s_owes,      \* settlement: <<[idx, res]>> after a Tenant.owes call, else <<>>
    s_result     \* settlement: <<result>> after who_owes_what, else <<>>

\* ------------------------------------------------------------ Bill, Tenant
\* Bill.total_days
total_days(bill) == bill.to_date - bill.from_date

\* Tenant.get_from_date
get_from_date(tenant) == tenant.entered_house

\* Tenant.get_to_date: today (now) for a tenant still at the address
get_to_date(tenant, now) ==
    IF tenant.still_at_address THEN now ELSE tenant.left_house

\* first if/elif of Tenant.owes
tenant_pays_from(tenant, bill) ==
    IF get_from_date(tenant) <= bill.from_date
    THEN bill.from_date
    ELSE get_from_date(tenant)

\* second if/elif/elif of Tenant.owes.  The third branch leaves the process
\* through sys.exit; when no branch is taken tenant_pays_to is unbound and
\* the subtraction that follows raises UnboundLocalError.
tenant_pays_to(tenant, bill, now) ==
    IF get_to_date(tenant, now) >= bill.to_date
    THEN [kind |-> "date", date |-> bill.to_date]
    ELSE IF get_from_date(tenant) < bill.from_date
    THEN [kind |-> "date", date |-> get_to_date(tenant, now)]
    ELSE IF bill.to_date > now
    THEN [kind |-> "SystemExit", date |-> 0]
    ELSE [kind |-> "UnboundLocalError", date |-> 0]

\* round(num / den, 2) in cents, num / den being the exact quotient in cents
RoundCents(num, den, up) ==
    LET n == IF den < 0 THEN 0 - num ELSE num
        d == IF den < 0 THEN 0 - den ELSE den
        q == n \div d
        r == n - q * d
    IN  IF 2 * r > d \/ (2 * r = d /\ up) THEN q + 1 ELSE q

\* variant of Share: the pro-rata amount is not divided by the headcount
ShareNoHeadcount(days_owing, bill, up) ==
    RoundCents(days_owing * bill.amount, total_days(bill), up)

\* variant of Share: the cents are cut off instead of rounded
ShareTruncated(days_owing, bill, up) ==
    (days_owing * bill.amount) \div
        (IF total_days(bill) * bill.num_people_in_house > 0
         THEN total_days(bill) * bill.num_people_in_house ELSE 1)

\* the amount of the returned tuple:
\* round((days_owing / total_days) * (amount / num_people_in_house), 2)
Share(days_owing, bill, up) ==
    RoundCents(days_owing * bill.amount,
               total_days(bill) * bill.num_people_in_house, up)

\* variant of IsOwing: a tenant with no day owing is listed too
IsOwingNonNegative(days_owing) == days_owing >= 0

\* the test on days_owing that decides between a tuple and None
IsOwing(days_owing) == days_owing > 0

\* Tenant.owes: a tuple (name, days_owing, share), None, or an exception
owes(tenant, bill, now, up) ==
    LET pf == tenant_pays_from(tenant, bill)
        pt == tenant_pays_to(tenant, bill, now)
        days_owing == pt.date - pf
    IN  IF pt.kind # "date"
        THEN [kind |-> pt.kind, name |-> tenant.name, pays_from |-> pf,
              pays_to |-> pf, days_owing |-> 0, share |-> 0]
        ELSE IF IsOwing(days_owing)
        THEN [kind |-> "tuple", name |-> tenant.name, pays_from |-> pf,
              pays_to |-> pt.date, days_owing |-> days_owing,
              share |-> Share(days_owing, bill, up)]
        ELSE [kind |-> "None", name |-> tenant.name, pays_from |-> pf,
              pays_to |-> pt.date, days_owing |-> days_owing, share |-> 0]

\* variant of Difference: the bill's amount minus the total
DifferenceSwapped(total_check, amount) == amount - total_check

\* difference = total_check - bill.amount
Difference(total_check, amount) == total_check - amount

\* the loop of who_owes_what from tenant idx on; acc is [total_check,
\* list_of_payees].  An exception of Tenant.owes leaves the function.
RECURSIVE owes_loop(_, _, _, _, _, _)
owes_loop(bill, tenants, now, tie, idx, acc) ==
    IF idx > Len(tenants)
    THEN [status |-> "returned",
          list_of_payees |-> acc.list_of_payees,
          total_check |-> acc.total_check,
          difference |-> Difference(acc.total_check, bill.amount),
          amount |-> bill.amount,
          bill |-> bill]
    ELSE LET tenant_data == owes(tenants[idx], bill, now, tie[idx])
         IN  IF tenant_data.kind \in {"SystemExit", "UnboundLocalError"}
             THEN [status |-> tenant_data.kind,
                   list_of_payees |-> acc.list_of_payees,
                   total_check |-> acc.total_check,
                   difference |-> 0,
                   amount |-> bill.amount,
                   bill |-> bill]
             ELSE IF tenant_data.kind = "tuple"
             THEN owes_loop(bill, tenants, now, tie, idx + 1,
                    [total_check |-> acc.total_check + tenant_data.share,
                     list_of_payees |-> Append(acc.list_of_payees,
                        [name |-> tenant_data.name,
                         days_owing |-> tenant_data.days_owing,
                         share |-> tenant_data.share])])
             ELSE owes_loop(bill, tenants, now, tie, idx + 1, acc)

\* who_owes_what(bill, tenants)
who_owes_what(bill, tenants, now, tie) ==
    owes_loop(bill, tenants, now, tie, 1,
              [total_check |-> 0, list_of_payees |-> <<>>])

\* names of tenants
TenantNames == <<"ann", "bob", "cat", "dan">>

\* the choices of the cent at the half-way cases, one per tenant of the roster
TieChoices(n) == [1 .. n -> BOOLEAN]

\* the share of the tenant in the bill lies half-way between two cents
HalfWay(tenant, bill, now) ==
    LET res == owes(tenant, bill, now, FALSE)
        den == total_days(bill) * bill.num_people_in_house
        num == res.days_owing * bill.amount
    IN  /\ res.kind = "tuple"
        /\ 2 * (num % (IF den < 0 THEN 0 - den ELSE den))
              = (IF den < 0 THEN 0 - den ELSE den)

\* the choices that differ in their effect on settling any of the bills
TiesOf(bills, tenants, now) ==
    { tie \in TieChoices(Len(tenants)) :
        \A i \in 1 .. Len(tenants) :
            tie[i] => \E k \in 1 .. Len(bills) : HalfWay(tenants[i], bills[k], now) }

\* ------------------------------------------ Property, Bill, Tenant records
\* str.lower on the categories of the model
Lower(category) == IF category = "Gas" THEN "gas" ELSE category

\* Property.__init__: tenant_count goes through int(), bill_types is kept
Property(name, tenant_count, bill_types) ==
    [name |-> name, tenant_count |-> tenant_count, bill_types |-> bill_types]

\* Property.to_json
property_to_json(property_conf) ==
    [name |-> property_conf.name,
     tenant_count |-> property_conf.tenant_count,
     bill_types |-> property_conf.bill_types]

\* Bill.__init__: per_day = amount / total_days raises ZeroDivisionError for
\* equal dates (per_day itself is read nowhere and is not kept); a category
\* whose lower case is no key of bill_types raises Exception; the headcount
\* and the supplier are taken from the property given to the constructor.
\* The result is [exc, bill]: exc = "" and <<the object>>, or the exception.
BillInit(category, amount, from_date, to_date, property_object, unique_id) ==
    IF to_date - from_date = 0
    THEN [exc |-> "ZeroDivisionError", bill |-> <<>>]
    ELSE IF Lower(category) \notin DOMAIN property_object.bill_types
    THEN [exc |-> "Exception", bill |-> <<>>]
    ELSE [exc |-> "",
          bill |-> <<[category |-> category,
                      amount |-> amount,
                      from_date |-> from_date,
                      to_date |-> to_date,
                      num_people_in_house |-> property_object.tenant_count,
                      supplier |-> property_object.bill_types[Lower(category)],
                      unique_id |-> unique_id]>>]

\* variant of BillEq: the identity of the object, as without __eq__
BillEqNever(self, other) == self.unique_id = other.unique_id

\* Bill.__eq__
BillEq(self, other) ==
    /\ self.amount = other.amount
    /\ self.from_date = other.from_date
    /\ self.to_date = other.to_date
    /\ self.category = other.category

\* Bill.to_json: the headcount is not written
bill_to_json(bill) ==
    [unique_id |-> bill.unique_id,
     category |-> bill.category,
     amount |-> bill.amount,
     from_date |-> bill.from_date,
     to_date |-> bill.to_date,
     supplier |-> bill.supplier]

\* variant of TenantInit: still_at_address is taken as true whatever is stored
TenantInitTruthy(name, entered_house, still_at_address, left_house, unique_id) ==
    [name |-> name,
     entered_house |-> entered_house,
     still_at_address |-> TRUE,
     left_house |-> left_house,
     unique_id |-> unique_id]

\* Tenant.__init__ with left_house and unique_id given, as load_json calls
\* it; still_at_address goes through bool()
TenantInit(name, entered_house, still_at_address, left_house, unique_id) ==
    [name |-> name,
     entered_house |-> entered_house,
     still_at_address |-> (still_at_address = TRUE),
     left_house |-> left_house,
     unique_id |-> unique_id]

\* Tenant.to_json: the stored left_house is written, not get_to_date()
tenant_to_json(tenant) ==
    [unique_id |-> tenant.unique_id,
     name |-> tenant.name,
     entered_house |-> tenant.entered_house,
     left_house |-> tenant.left_house,
     still_at_address |-> tenant.still_at_address]

\* uuid.uuid4(): an identifier no bill of the list carries
uuid4(bill_list) ==
    CHOOSE i \in 1 .. Len(bill_list) + 1 :
        /\ \A k \in 1 .. Len(bill_list) : bill_list[k].unique_id # i
        /\ \A j \in 1 .. i - 1 : \E k \in 1 .. Len(bill_list) : bill_list[k].unique_id = j

\* ------------------------------------------------------ save_json, load_json
\* save_json: the document written to the file
save_json(tenant_list, property_conf, bill_list) ==
    [property |-> property_to_json(property_conf),
     tenants |-> [i \in 1 .. Len(tenant_list) |-> tenant_to_json(tenant_list[i])],
     bills |-> [i \in 1 .. Len(bill_list) |-> bill_to_json(bill_list[i])]]

\* what open(filename, "w") leaves when json.dump does not complete
TruncatedFile ==
    [property |-> [name |-> "", tenant_count |-> 0, bill_types |-> <<>>],
     tenants |-> <<>>, bills |-> <<>>]

\* load_json: the property is new_property_conf when one is given (<<p>>),
\* else the stored one; every bill is constructed anew against that
\* property, the stored supplier being read and dropped.  An exception of
\* Bill.__init__ leaves load_json.
load_json(json_data, new_property_conf) ==
    LET property_conf ==
            IF new_property_conf # <<>>
            THEN new_property_conf[1]
            ELSE Property(json_data.property.name, json_data.property.tenant_count,
                          json_data.property.bill_types)
        tenant_list ==
            [i \in 1 .. Len(json_data.tenants) |->
                TenantInit(json_data.tenants[i].name,
                           json_data.tenants[i].entered_house,
                           json_data.tenants[i].still_at_address,
                           json_data.tenants[i].left_house,
                           json_data.tenants[i].unique_id)]
        built ==
            [i \in 1 .. Len(json_data.bills) |->
                BillInit(json_data.bills[i].category, json_data.bills[i].amount,
                         json_data.bills[i].from_date, json_data.bills[i].to_date,
                         property_conf, json_data.bills[i].unique_id)]
        failed == { i \in 1 .. Len(built) : built[i].exc # "" }
    IN  IF failed # {}
        THEN [exc |-> built[CHOOSE i \in failed : \A j \in failed : i <= j].exc,
              tenant_list |-> tenant_list, property_conf |-> property_conf,
              bill_list |-> <<>>]
        ELSE [exc |-> "",
              tenant_list |-> tenant_list, property_conf |-> property_conf,
              bill_list |-> [i \in 1 .. Len(built) |-> built[i].bill[1]]]

\* ------------------------------------------------------------------ add_bill
\* add_bill: the Bill is constructed first (its exception leaves add_bill);
\* a bill of the list equal to it gives the notice "Bill already exists" and
\* the list as it is, else the bill is appended
add_bill(property_conf, bill_detail_list, bill_list) ==
    LET made == BillInit(bill_detail_list.category, bill_detail_list.amount,
                         bill_detail_list.from_date, bill_detail_list.to_date,
                         property_conf, uuid4(bill_list))
    IN  IF made.exc # ""
        THEN [exc |-> made.exc, notified |-> FALSE, bill_list |-> bill_list]
        ELSE IF \E k \in 1 .. Len(bill_list) : BillEq(bill_list[k], made.bill[1])
        THEN [exc |-> "", notified |-> TRUE, bill_list |-> bill_list]
        ELSE [exc |-> "", notified |-> FALSE,
              bill_list |-> Append(bill_list, made.bill[1])]

\* ------------------------------------------------- list indexing of Python
\* a list accepts the indices -len .. len - 1, a negative one counting from
\* the end; any other raises IndexError
IndexOk(list, number) == 0 - Len(list) <= number /\ number < Len(list)

\* the position (from 1) of list[number]
Position(list, number) ==
    IF number < 0 THEN Len(list) + number + 1 ELSE number + 1

\* list.pop(number)
Pop(list, number) ==
    SubSeq(list, 1, Position(list, number) - 1)
        \o SubSeq(list, Position(list, number) + 1, Len(list))


\* ---------------------------------------------------------------- main()
\* the arguments of one run: an option not given is FALSE or <<>>; rc, db
\* and dt carry the number typed at the prompt, b the four values of -b, p
\* the property typed into set_property_values.  fail_lt and fail_save say
\* whether the save_json of --list-tenants and the final one raise.

\* the provider maps of the properties: gas only, or gas and water
BillTypeMaps ==
    { [c \in {"gas"} |-> "agl"],
      [c \in {"gas", "water"} |-> IF c = "gas" THEN "origin" ELSE "sydwater"] }

\* Property objects as set_property_values builds them
Properties ==
    { Property("house", n, m) : n \in 1 .. MaxCount, m \in BillTypeMaps }

\* the four values of -b: 10.00 for gas or water over dates in order (equal
\* dates make Bill.__init__ raise); water is missing from one provider map
BillDetails ==
    { d \in [amount : {1000}, from_date : 0 .. MaxDay, to_date : 0 .. MaxDay,
              category : {"gas", "water"}] : d.from_date <= d.to_date }

\* parse_args() of an empty command line
NoArguments ==
    [lb |-> FALSE, rc |-> <<>>, db |-> <<>>, dt |-> <<>>, lt |-> FALSE,
     b |-> <<>>, p |-> <<>>, lp |-> FALSE,
     fail_lt |-> FALSE, fail_save |-> FALSE]

\* the options of the parser
Options == <<"lb", "rc", "db", "dt", "lt", "b", "p", "lp">>

\* the values an option takes when it is given
Given(option) ==
    CASE option = "rc" -> { <<n>> : n \in -1 .. MaxBills }
      [] option = "db" -> { <<n>> : n \in -1 .. MaxBills }
      [] option = "dt" -> { <<n>> : n \in -1 .. MaxTenants }
      [] option = "b" -> { <<d>> : d \in BillDetails }
      [] option = "p" -> { <<q>> : q \in Properties }
      [] OTHER -> {TRUE}

\* args with up to k more of the options from the i-th on
RECURSIVE WithOptions(_, _, _)
WithOptions(args, i, k) ==
    IF k = 0 \/ i > Len(Options) THEN {args}
    ELSE WithOptions(args, i + 1, k)
         \cup UNION { WithOptions([args EXCEPT ![Options[i]] = v], i + 1, k - 1) :
                        v \in Given(Options[i]) }

\* command lines of at most MaxFlags options, with the saves that fail
Arguments ==
    UNION { { [args EXCEPT !.fail_lt = f[1], !.fail_save = f[2]] :
                f \in (IF args.lt THEN BOOLEAN ELSE {FALSE}) \X BOOLEAN } :
            args \in WithOptions(NoArguments, 1, MaxFlags) }

\* the state of a run inside the try block: exc is "" until a step raises;
\* the other fields are the file, the two lists and what has been printed
StartOfTry(json_data, loaded) ==
    [exc |-> "", file |-> json_data,
     tenant_list |-> loaded.tenant_list, bill_list |-> loaded.bill_list,
     rc |-> <<>>, db_shown |-> <<>>, db_after |-> <<>>,
     dt_shown |-> <<>>, dt_after |-> <<>>,
     notified |-> FALSE, b_before |-> <<>>, b_after |-> <<>>, b_settle |-> <<>>]

\* a step raises exc
Raise(st, exc) == [st EXCEPT !.exc = exc]

\* who_owes_what was called: its result is kept under field, its exception
\* leaves the try block
Settled(st, res, field) ==
    IF res.status = "returned"
    THEN [st EXCEPT ![field] = <<res>>]
    ELSE [st EXCEPT ![field] = <<res>>, !.exc = res.status]

\* if args.recalculate: bill_list[int(bill_number)] and who_owes_what
StepRecalculate(st, args, now, tie) ==
    IF st.exc # "" \/ args.rc = <<>> THEN st
    ELSE IF ~ IndexOk(st.bill_list, args.rc[1]) THEN Raise(st, "IndexError")
    ELSE Settled(st, who_owes_what(st.bill_list[Position(st.bill_list, args.rc[1])],
                                   st.tenant_list, now, tie), "rc")

\* if args.delete_bill: list_bills, bill_list.pop(int(bill_number)), list_bills
StepDeleteBill(st, args) ==
    IF st.exc # "" \/ args.db = <<>> THEN st
    ELSE IF ~ IndexOk(st.bill_list, args.db[1])
    THEN [st EXCEPT !.db_shown = <<st.bill_list>>, !.exc = "IndexError"]
    ELSE [st EXCEPT !.db_shown = <<st.bill_list>>,
                    !.bill_list = Pop(st.bill_list, args.db[1]),
                    !.db_after = <<Pop(st.bill_list, args.db[1])>>]

\* if args.delete_tenant: the same on tenant_list
StepDeleteTenant(st, args) ==
    IF st.exc # "" \/ args.dt = <<>> THEN st
    ELSE IF ~ IndexOk(st.tenant_list, args.dt[1])
    THEN [st EXCEPT !.dt_shown = <<st.tenant_list>>, !.exc = "IndexError"]
    ELSE [st EXCEPT !.dt_shown = <<st.tenant_list>>,
                    !.tenant_list = Pop(st.tenant_list, args.dt[1]),
                    !.dt_after = <<Pop(st.tenant_list, args.dt[1])>>]

\* a call of save_json on PROGRAM_JSON
StepSave(st, property_conf, fails) ==
    IF st.exc # "" THEN st
    ELSE IF fails THEN [st EXCEPT !.file = TruncatedFile, !.exc = "OSError"]
    ELSE [st EXCEPT !.file = save_json(st.tenant_list, property_conf, st.bill_list)]

\* if args.list_tenants: list_tenants and save_json
StepListTenants(st, args, property_conf) ==
    IF args.lt THEN StepSave(st, property_conf, args.fail_lt) ELSE st

\* if args.b is not None: add_bill, then who_owes_what on the last bill of
\* the list that add_bill returns
StepAddBill(st, args, property_conf, now, tie) ==
    IF st.exc # "" \/ args.b = <<>> THEN st
    ELSE LET new_bill == add_bill(property_conf, args.b[1], st.bill_list)
         IN  IF new_bill.exc # ""
             THEN [st EXCEPT !.b_before = <<st.bill_list>>, !.exc = new_bill.exc]
             ELSE Settled([st EXCEPT !.b_before = <<st.bill_list>>,
                                     !.b_after = <<new_bill.bill_list>>,
                                     !.notified = new_bill.notified,
                                     !.bill_list = new_bill.bill_list],
                          who_owes_what(new_bill.bill_list[Len(new_bill.bill_list)],
                                        st.tenant_list, now, tie),
                          "b_settle")

\* the try block of main(); list_bills and Property.summary only print
TryBlock(json_data, loaded, args, now, tie_rc, tie_b) ==
    LET property_conf == loaded.property_conf
        st2 == StepRecalculate(StartOfTry(json_data, loaded), args, now, tie_rc)
        st3 == StepDeleteBill(st2, args)
        st4 == StepDeleteTenant(st3, args)
        st5 == StepListTenants(st4, args, property_conf)
        st6 == StepAddBill(st5, args, property_conf, now, tie_b)
    IN  StepSave(st6, property_conf, args.fail_save)

\* variant of Restore: the file is left as the failed run wrote it
RestoreSkipped(backup_content, file_content) == file_content

\* except: copyfile(BACKUP_JSON, PROGRAM_JSON)
Restore(backup_content, file_content) == backup_content

\* no run is going on: the shell is at the prompt
NoRun ==
    [args |-> NoArguments,
     status |-> "none", before |-> TruncatedFile, property_conf |-> <<>>,
     rc |-> <<>>, db_shown |-> <<>>, db_after |-> <<>>,
     dt_shown |-> <<>>, dt_after |-> <<>>,
     notified |-> FALSE, b_before |-> <<>>, b_after |-> <<>>, b_settle |-> <<>>]

\* the file while only the settlement functions are called
EmptyFile == TruncatedFile

\* what a run leaves to be seen: its exit, the file before it, its output
RunRecord(args, status, json_data, loaded, st) ==
    [args |-> args, status |-> status, before |-> json_data,
     property_conf |-> <<loaded.property_conf>>,
     rc |-> st.rc, db_shown |-> st.db_shown, db_after |-> st.db_after,
     dt_shown |-> st.dt_shown, dt_after |-> st.dt_after,
     notified |-> st.notified, b_before |-> st.b_before,
     b_after |-> st.b_after, b_settle |-> st.b_settle]

\* the tenant_count under which each bill of the saved list was added
FirstCounts(st, property_conf) ==
    [id \in { st.bill_list[k].unique_id : k \in 1 .. Len(st.bill_list) } |->
        IF /\ st.b_after # <<>>
           /\ st.b_after[1] # st.b_before[1]
           /\ id = st.b_after[1][Len(st.b_after[1])].unique_id
        THEN property_conf.tenant_count
        ELSE first_count[id]]

\* one run of main() from the shell prompt.  load_json runs before the
\* backup is taken and outside the try block: its exception ends the run with
\* the two files as they are.  An exception inside the try block copies the
\* backup over the file and exits with the backup left in place; a run
\* without exception removes the backup.  Bills are added up to MaxBills.
main ==
    /\ run.status = "none"
    /\ \E args \in Arguments :
        \E loaded \in {load_json(file, args.p)} :
        LET added == IF args.b = <<>> THEN loaded.bill_list
                     ELSE add_bill(loaded.property_conf, args.b[1],
                                   loaded.bill_list).bill_list
        IN
        \E tie_rc \in TiesOf(loaded.bill_list, loaded.tenant_list, today),
           tie_b \in TiesOf(added, loaded.tenant_list, today) :
        \E st \in {TryBlock(file, loaded, args, today, tie_rc, tie_b)} :
            IF loaded.exc # ""
            THEN /\ run' = RunRecord(args, "crash", file, loaded,
                                     StartOfTry(file, loaded))
                 /\ UNCHANGED <<file, backup, first_count>>
            ELSE IF st.exc # ""
            THEN /\ file' = Restore(file, st.file)
                 /\ backup' = <<file>>
                 /\ run' = RunRecord(args, "error", file, loaded, st)
                 /\ UNCHANGED first_count
            ELSE /\ Len(st.bill_list) <= MaxBills
                 /\ file' = st.file
                 /\ backup' = <<>>
                 /\ run' = RunRecord(args, "ok", file, loaded, st)
                 /\ first_count' = FirstCounts(st, loaded.property_conf)
    /\ UNCHANGED <<today, s_bill, s_tenants, s_today, s_owes, s_result>>

\* the process has ended: the shell is back at the prompt
exit ==
    /\ run.status # "none"
    /\ run' = NoRun
    /\ UNCHANGED <<file, backup, today, first_count,
                   s_bill, s_tenants, s_today, s_owes, s_result>>

\* midnight passes between two runs
NextDay ==
    /\ run.status = "none"
    /\ today < MaxDay
    /\ today' = today + 1
    /\ UNCHANGED <<file, backup, run, first_count,
                   s_bill, s_tenants, s_today, s_owes, s_result>>

\* ------------------------------------------- settlement: inputs and calls
SettleDates == 0 .. MaxSettleDay
SettleAmounts == {10000, 1003}

\* tenants as load_json or add_new_tenant construct them: a departed tenant
\* has left_house >= entered_house; one still at the address keeps a stored
\* left_house that get_to_date ignores
SettleTenants(dates) ==
    { t \in [entered_house : dates, still_at_address : {FALSE}, left_house : dates] :
        t.left_house >= t.entered_house }
    \cup
    { [entered_house |-> e, still_at_address |-> TRUE, left_house |-> e] :
        e \in dates }

Named(roster) ==
    [i \in 1 .. Len(roster) |->
        [name |-> TenantNames[i],
         entered_house |-> roster[i].entered_house,
         still_at_address |-> roster[i].still_at_address,
         left_house |-> roster[i].left_house]]

SeqsUpTo(S, n) == UNION { [1 .. k -> S] : k \in 0 .. n }

\* Bill objects that Bill.__init__ constructs (from_date = to_date raises
\* ZeroDivisionError at per_day); add_bill does not order the two dates
SettleBills(dates) ==
    { b \in [category : {"gas"}, amount : SettleAmounts, from_date : dates,
              to_date : dates, num_people_in_house : 1 .. MaxCount,
              supplier : {"agl"}, unique_id : {1}] :
        b.from_date # b.to_date }

\* the two scenarios of the documentation: 100.00 from 2024-01-01 to
\* 2024-01-31 (days 0 and 30), tenant_count 2, tenants resident for the whole
\* month, or one of them from 2024-01-16 (day 15)
ScenarioBill ==
    [category |-> "gas", amount |-> 10000, from_date |-> 0, to_date |-> 30,
     num_people_in_house |-> 2, supplier |-> "agl", unique_id |-> 1]

ScenarioRosters ==
    { Named(<<[entered_house |-> 0, still_at_address |-> FALSE, left_house |-> 30],
              [entered_house |-> e, still_at_address |-> s, left_house |-> 30]>>) :
        e \in {0, 15}, s \in BOOLEAN }

InitSettle ==
    /\ \/ /\ s_bill \in SettleBills(SettleDates)
          /\ s_tenants \in { Named(r) : r \in SeqsUpTo(SettleTenants(SettleDates), MaxRoster) }
          /\ s_today \in SettleDates
       \/ /\ s_bill = ScenarioBill
          /\ s_tenants \in ScenarioRosters
          /\ s_today \in {30, 31}
    /\ s_owes = <<>>
    /\ s_result = <<>>
    /\ file = EmptyFile /\ backup = <<>> /\ today = 0
    /\ run = NoRun /\ first_count = <<>>

\* one call of Tenant.owes on a tenant of the roster
OwesCall ==
    /\ s_owes = <<>>
    /\ s_result = <<>>
    /\ \E idx \in 1 .. Len(s_tenants), up \in BOOLEAN :
          s_owes' = <<[idx |-> idx, res |-> owes(s_tenants[idx], s_bill, s_today, up)]>>
    /\ UNCHANGED <<s_bill, s_tenants, s_today, s_result>>
    /\ UNCHANGED <<file, backup, today, run, first_count>>

\* one call of who_owes_what on the bill and the roster
SettleCall ==
    /\ s_result = <<>>
    /\ \E tie \in TieChoices(Len(s_tenants)) :
          s_result' = <<who_owes_what(s_bill, s_tenants, s_today, tie)>>
    /\ UNCHANGED <<s_bill, s_tenants, s_today, s_owes>>
    /\ UNCHANGED <<file, backup, today, run, first_count>>

NextSettle == OwesCall \/ SettleCall

\* ------------------------------------------------------ the file at start
\* the tenants of the initial file: the first still at the address since day
\* 0, the others entered on day 0 and left on the given day
FileTenant(i, left) ==
    [unique_id |-> i,
     name |-> TenantNames[i],
     entered_house |-> 0,
     left_house |-> left,
     still_at_address |-> (i = 1)]

\* a file with a property, some of the tenants and no bill yet
Init ==
    /\ \E p \in Properties, n \in 0 .. MaxTenants, left \in {0, MaxDay} :
          file = [property |-> property_to_json(p),
                  tenants |-> [i \in 1 .. n |-> FileTenant(i, left)],
                  bills |-> <<>>]
    /\ backup = <<>>
    /\ today = 0
    /\ run = NoRun
    /\ first_count = <<>>
    /\ s_bill = ScenarioBill /\ s_tenants = <<>> /\ s_today = 0
    /\ s_owes = <<>> /\ s_result = <<>>

Next == main \/ exit \/ NextDay

vars == <<file, backup, today, run, first_count,
          s_bill, s_tenants, s_today, s_owes, s_result>>

Spec == Init /\ [][Next]_vars

SpecSettle == InitSettle /\ [][NextSettle]_vars

\* ------------------------------------------------ claims on the settlement
Abs(x) == IF x < 0 THEN 0 - x ELSE x
Later(a, b) == IF a >= b THEN a ELSE b
Earlier(a, b) == IF a <= b THEN a ELSE b

RECURSIVE SumShares(_)
SumShares(payees) ==
    IF payees = <<>> THEN 0
    ELSE payees[1].share + SumShares(Tail(payees))

\* the residency of the tenant is an interval: entered_house <= effective end
ValidResidency(tenant, now) ==
    tenant.entered_house <= get_to_date(tenant, now)

\* the residency interval and the billing interval do not overlap
NoOverlap(tenant, bill, now) ==
    \/ tenant.entered_house > bill.to_date
    \/ get_to_date(tenant, now) < bill.from_date

\* the tenant is resident for the full billing period
FullPeriod(tenant, bill, now) ==
    /\ tenant.entered_house <= bill.from_date
    /\ get_to_date(tenant, now) >= bill.to_date

\* share is a cent nearest to
\* (days_owing / total_days) * (amount / num_people_in_house)
NearestCent(share, days_owing, bill) ==
    2 * Abs(share * total_days(bill) * bill.num_people_in_house
            - days_owing * bill.amount)
        <= Abs(total_days(bill) * bill.num_people_in_house)

Payees == IF s_result = <<>> THEN <<>> ELSE s_result[1].list_of_payees
Returned == s_result # <<>> /\ s_result[1].status = "returned"
TenantNamed(name) ==
    s_tenants[CHOOSE i \in 1 .. Len(s_tenants) : s_tenants[i].name = name]

\* C1: for every tenant with entered_house <= effective end, Tenant.owes
\* returns a tuple or None, having taken the later of (tenant entry, bill
\* start) as the start, the earlier of (tenant's effective end, bill end) as
\* the end, and end minus start as days_owing.
C1_OwesReturnsForEveryPair ==
    \A k \in 1 .. Len(s_owes) :
        LET tenant == s_tenants[s_owes[k].idx]
            res == s_owes[k].res
        IN  ValidResidency(tenant, s_today) =>
              /\ res.kind \in {"tuple", "None"}
              /\ res.pays_from = Later(tenant.entered_house, s_bill.from_date)
              /\ res.pays_to = Earlier(get_to_date(tenant, s_today), s_bill.to_date)
              /\ res.days_owing = res.pays_to - res.pays_from

\* C2: a tenant whose residency interval does not overlap the billing
\* interval gets None from Tenant.owes and is absent from the payee list of
\* who_owes_what; no payee is listed with days_owing <= 0.
C2_NoOverlapExcluded ==
    /\ \A k \in 1 .. Len(s_owes) :
          LET tenant == s_tenants[s_owes[k].idx]
          IN  (ValidResidency(tenant, s_today) /\ NoOverlap(tenant, s_bill, s_today))
                => s_owes[k].res.kind = "None"
    /\ \A k \in 1 .. Len(Payees) :
          /\ Payees[k].days_owing > 0
          /\ ~ ( /\ ValidResidency(TenantNamed(Payees[k].name), s_today)
                 /\ NoOverlap(TenantNamed(Payees[k].name), s_bill, s_today) )
    /\ (Returned /\ \A i \in 1 .. Len(s_tenants) :
                        /\ ValidResidency(s_tenants[i], s_today)
                        /\ NoOverlap(s_tenants[i], s_bill, s_today))
          => (Payees = <<>> /\ s_result[1].total_check = 0)

C2_Witness ==
    /\ Returned
    /\ Len(Payees) = 1
    /\ Len(s_tenants) = 2
    /\ \E i \in 1 .. 2 : /\ ValidResidency(s_tenants[i], s_today)
                         /\ NoOverlap(s_tenants[i], s_bill, s_today)

\* C3: the share of every listed payee is (days_owing / total_days) *
\* (amount / num_people_in_house) rounded to the cent; the 100.00 bill over
\* 30 days with tenant_count 2 gives 50.00 for 30 days and 25.00 for 15 days.
C3_ShareIsRoundedProRata ==
    /\ \A k \in 1 .. Len(Payees) :
          /\ NearestCent(Payees[k].share, Payees[k].days_owing, s_bill)
          /\ s_bill = ScenarioBill =>
                /\ Payees[k].days_owing = 30 => Payees[k].share = 5000
                /\ Payees[k].days_owing = 15 => Payees[k].share = 2500
    /\ \A k \in 1 .. Len(s_owes) :
          s_owes[k].res.kind = "tuple" =>
             NearestCent(s_owes[k].res.share, s_owes[k].res.days_owing, s_bill)

C3_Witness ==
    /\ Returned
    /\ s_bill = ScenarioBill
    /\ Len(Payees) = 2
    /\ Payees[1].days_owing = 30 /\ Payees[1].share = 5000
    /\ Payees[2].days_owing = 15 /\ Payees[2].share = 2500

\* C4: when who_owes_what has processed all tenants, total_check is the sum
\* of the shares of the listed payees, difference is total_check minus the
\* bill's amount, and neither the bill's amount nor a listed share is
\* adjusted to the difference: each share is still the rounded pro-rata
\* amount (100.00, tenant_count 2, 30 and 15 of 30 days: 50.00 and 25.00,
\* 75.00 collected, difference -25.00).
C4_DifferenceReportedNotCorrected ==
    Returned =>
       /\ s_result[1].total_check = SumShares(Payees)
       /\ s_result[1].difference = s_result[1].total_check - s_bill.amount
       /\ s_result[1].bill = s_bill
       /\ s_result[1].amount = s_bill.amount
       /\ \A k \in 1 .. Len(Payees) :
             NearestCent(Payees[k].share, Payees[k].days_owing, s_bill)
       /\ (s_bill = ScenarioBill /\ Len(Payees) = 2
             /\ Payees[1].days_owing = 30 /\ Payees[2].days_owing = 15)
            => /\ s_result[1].total_check = 7500
               /\ s_result[1].difference = 0 - 2500

C4_Witness ==
    /\ Returned
    /\ s_bill = ScenarioBill
    /\ Len(Payees) = 2
    /\ Payees[1].share = 5000 /\ Payees[2].share = 2500
    /\ s_result[1].total_check = 7500
    /\ s_result[1].difference = 0 - 2500

\* C9: for a bill (total_days > 0) whose roster has exactly
\* num_people_in_house tenants, each resident for the full billing period,
\* every tenant is listed with a share in whole cents and the difference is
\* at most one cent per tenant in absolute value.
C9_FullRosterDifferenceBound ==
    ( /\ Returned
      /\ total_days(s_bill) > 0
      /\ Len(s_tenants) = s_bill.num_people_in_house
      /\ \A i \in 1 .. Len(s_tenants) : FullPeriod(s_tenants[i], s_bill, s_today) )
    => /\ Len(Payees) = Len(s_tenants)
       /\ \A k \in 1 .. Len(Payees) : Payees[k].share \in Int
       /\ Abs(s_result[1].difference) <= s_bill.num_people_in_house

C9_Witness ==
    /\ Returned
    /\ total_days(s_bill) > 0
    /\ s_bill.num_people_in_house = 2
    /\ Len(s_tenants) = 2
    /\ \A i \in 1 .. Len(s_tenants) : FullPeriod(s_tenants[i], s_bill, s_today)
    /\ s_result[1].difference = 1

\* ------------------------------------------------------ claims on the runs
\* the four fields that Bill.__eq__ compares
SameFour(x, y) ==
    /\ x.category = y.category
    /\ x.amount = y.amount
    /\ x.from_date = y.from_date
    /\ x.to_date = y.to_date

NoTwoEqual(bills) ==
    \A i, j \in 1 .. Len(bills) : i # j => ~ SameFour(bills[i], bills[j])

RemoveAt(list, pos) ==
    [k \in 1 .. Len(list) - 1 |-> IF k < pos THEN list[k] ELSE list[k + 1]]

\* the run gave only listing options, and at least one
OnlyListing(args) ==
    /\ args.lb \/ args.lt \/ args.lp
    /\ args.rc = <<>> /\ args.db = <<>> /\ args.dt = <<>>
    /\ args.b = <<>> /\ args.p = <<>>

\* C5: the stored list never holds two bills equal in category, amount,
\* from_date and to_date; add_bill of a bill equal to a stored one leaves the
\* list as it is and prints "Bill already exists", and a run that does only
\* that saves the bills it found.
C5_AddTwiceIsNoOp ==
    /\ NoTwoEqual(file.bills)
    /\ run.b_after # <<>> =>
          LET before_add == run.b_before[1]
              duplicate == \E k \in 1 .. Len(before_add) :
                               SameFour(before_add[k], run.args.b[1])
          IN  /\ duplicate => (run.notified /\ run.b_after[1] = before_add)
              /\ run.notified => duplicate
              /\ (duplicate /\ run.status = "ok"
                    /\ run.args.db = <<>> /\ run.args.p = <<>>)
                   => file.bills = run.before.bills

C5_Witness ==
    /\ run.status = "ok"
    /\ run.notified
    /\ Len(run.b_after[1]) = 2
    /\ file.bills = run.before.bills

\* C6: a run in which a step fails after the backup was taken (add-bill
\* with a category missing from the provider map, a delete with an index the
\* list does not accept, a save that fails) ends with an error and with the
\* file as it was before the run, also after a bill or tenant was removed in
\* memory or the file was rewritten.
C6_FailureRestoresFile ==
    /\ run.status = "error" => (file = run.before /\ backup = <<run.before>>)
    /\ (run.status \in {"ok", "error"} /\ run.args.b # <<>>
          /\ Lower(run.args.b[1].category)
                \notin DOMAIN run.property_conf[1].bill_types)
         => run.status = "error"
    /\ (run.status \in {"ok", "error"} /\ run.args.db # <<>>
          /\ (run.args.db[1] >= Len(run.before.bills)
                \/ run.args.db[1] < 0 - Len(run.before.bills)))
         => run.status = "error"
    /\ (run.status \in {"ok", "error"} /\ run.args.dt # <<>>
          /\ (run.args.dt[1] >= Len(run.before.tenants)
                \/ run.args.dt[1] < 0 - Len(run.before.tenants)))
         => run.status = "error"
    /\ (run.status \in {"ok", "error"}
          /\ (run.args.fail_save \/ run.args.fail_lt))
         => run.status = "error"

C6_Witness ==
    /\ run.status = "error"
    /\ run.args.fail_save
    /\ run.db_after # <<>>
    /\ Len(run.db_after[1]) + 1 = Len(file.bills)

\* C7: delete-bill and delete-tenant with an index outside 0 .. length-1,
\* negative ones included, end the run with an error and remove nothing from
\* the file; with an index inside 0 .. length-1 the list printed after the
\* removal is the list shown before it without the entry at that index.
C7_DeleteOutOfRangeIsFatal ==
    /\ run.db_shown # <<>> =>
          IF run.args.db[1] \in 0 .. Len(run.db_shown[1]) - 1
          THEN run.db_after = <<RemoveAt(run.db_shown[1], run.args.db[1] + 1)>>
          ELSE run.status = "error" /\ file = run.before
    /\ run.dt_shown # <<>> =>
          IF run.args.dt[1] \in 0 .. Len(run.dt_shown[1]) - 1
          THEN run.dt_after = <<RemoveAt(run.dt_shown[1], run.args.dt[1] + 1)>>
          ELSE run.status = "error" /\ file = run.before

\* C8: a run that only lists (bills, tenants, property) leaves the property,
\* the tenants and the bills of the file as they were, though it saves the
\* file again.
C8_ListingKeepsState ==
    (run.status # "none" /\ OnlyListing(run.args)) => file = run.before

C8_Witness ==
    /\ run.status = "ok"
    /\ run.args.lt
    /\ OnlyListing(run.args)
    /\ Len(file.bills) >= 1
    /\ \E i \in 1 .. Len(file.tenants) : ~ file.tenants[i].still_at_address

\* C10: the headcount by which recalculate divides is the tenant_count that
\* was configured when the bill was first added, whatever set-property runs
\* and reloads came in between.
C10_HeadcountIsSnapshotOfCreation ==
    (run.rc # <<>> /\ run.rc[1].bill.unique_id \in DOMAIN first_count) =>
        run.rc[1].bill.num_people_in_house
            = first_count[run.rc[1].bill.unique_id]

\* C11: in every add-bill run, the bill being new or rejected as a duplicate,
\* the settlement that the run performs is computed for the bill given with
\* -b: the settled bill has its category, amount, from_date and to_date.
C11_AddBillSettlesGivenBill ==
    run.b_settle # <<>> => SameFour(run.b_settle[1].bill, run.args.b[1])

====
